---- MODULE Spec2Model ----
(***************************************************************************)
(* A model of portscanner-go: the worker pool of ScanHostPorts, the        *)
(* protocol prober fingerprintService and the banner sanitizer             *)
(* (internal/scanner/scanner.go), and the command line program around      *)
(* them: expandHosts, parsePorts, Top and main (main.go).                  *)
(*                                                                         *)
(* Go strings are modelled as sequences of code points (TLC cannot index   *)
(* a string), so that prefix tests, trimming and sanitizing are computed   *)
(* character by character as the code computes them.  Service names and    *)
(* error messages are only ever compared for equality and stay strings.    *)
(***************************************************************************)
EXTENDS Integers, Sequences, FiniteSets, Bags, TLC

VARIABLES
    \* ---- ScanHostPorts: arguments
    host,           \* host string
    ports,          \* ports []int
    workersArg,     \* workers, as passed by the caller
    probe,          \* probe flag
    target,         \* the network: port -> what a dial of host:port meets
    \* ---- ScanHostPorts: locals, channels and goroutines
    workers,        \* workers after the coercion of line 27
    wg,             \* sync.WaitGroup counter
    pool,           \* bag of the worker goroutines' local states
    jobsNext,       \* dispatcher: index of the next port to submit
    jobsClosed,     \* close(jobs) has happened
    resultsClosed,  \* close(results) has happened
    dispPc,         \* dispatcher goroutine position
    mainPc,         \* calling goroutine position
    out,            \* the collector's slice
    ret,            \* the returned slice
    \* ---- sanitizeBanner applied to drawn inputs
    sanIn,          \* the raw string
    sanOut,         \* the outputs of the successive calls
    \* ---- one worker iteration on a drawn connection
    fpPort,         \* the port dialled
    fpConn,         \* what answers there
    fpRes,          \* the Result, and what was done to the connection
    fpRet,          \* svc, banner, fp as fingerprintService returned them
    fpPc,           \* "dial" before, "done" after
    \* ---- parsePorts applied to drawn port specifications
    ppSpec,         \* the -ports string
    ppRes,          \* what parsePorts returned
    ppPc,           \* "parse" before, "done" after
    \* ---- main: flags and the network
    hostsSpec,      \* -hosts
    portsSpec,      \* -ports
    workersFlag,    \* -workers
    jsonOut,        \* -json
    includeClosed,  \* -all
    hostsUp,        \* the hosts that answer
    listening,      \* the ports open on a host that answers
    \* ---- main: locals
    items,          \* expandHosts: strings.Split(input, ",")
    itemIdx,        \* expandHosts: position in items
    inLoop,         \* expandHosts: inside the CIDR loop of line 188
    cur,            \* expandHosts: the uint32 loop counter
    end,            \* expandHosts: ipToUint32(end)
    hosts,          \* the expanded host list
    portsList,      \* the parsed port list
    hostIdx,        \* position of the loop of line 246 in hosts
    allResults,     \* the merged results
    emitted,        \* the rows written to stdout, in order
    mPc             \* position of main

scanVars == <<host, ports, workersArg, probe, target, workers, wg, pool,
              jobsNext, jobsClosed, resultsClosed, dispPc, mainPc, out, ret>>
sanVars == <<sanIn, sanOut>>
fpVars == <<fpPort, fpConn, fpRes, fpRet, fpPc>>
ppVars == <<ppSpec, ppRes, ppPc>>
mainVars == <<hostsSpec, portsSpec, workersFlag, jsonOut, includeClosed, hostsUp,
              listening, items, itemIdx, inLoop, cur, end, hosts, portsList,
              hostIdx, allResults, emitted, mPc>>
others == <<sanVars, fpVars, ppVars, mainVars>>
vars == <<scanVars, sanVars, fpVars, ppVars, mainVars>>

-----------------------------------------------------------------------------
(* Bounds of the model *)

\* longest port list handed to ScanHostPorts
MaxPorts == 2
\* largest explicit worker count
MaxWorkers == 2
\* longest raw string handed to sanitizeBanner
MaxLen == 4

-----------------------------------------------------------------------------
(* Program constants *)

\* workers = 100 when workers <= 0
DefaultWorkers == 100
\* buf := make([]byte, 256)
BufSize == 256
\* for i := 0; i < 20; i++ { // read limited headers
MaxHeaders == 20

-----------------------------------------------------------------------------
(* String literals of the source, as code points *)

S_SSH == <<83, 83, 72, 45>>                         \* "SSH-"
S_SMTP == <<83, 77, 84, 80>>                        \* "SMTP"
S_220 == <<50, 50, 48, 32>>                         \* "220 "
S_FTP == <<70, 84, 80>>                             \* "FTP"
S_OK == <<43, 79, 75>>                              \* "+OK"
S_POP3 == <<80, 79, 80, 51>>                        \* "POP3"
S_STAROK == <<42, 32, 79, 75>>                      \* "* OK"
S_IMAP == <<73, 77, 65, 80>>                        \* "IMAP"
S_HTTP == <<72, 84, 84, 80, 47>>                    \* "HTTP/"
S_server == <<115, 101, 114, 118, 101, 114, 58>>    \* "server:"
S_CN == <<67, 78, 61>>                              \* "CN="
S_Issuer == <<73, 115, 115, 117, 101, 114, 61>>     \* "Issuer="
S_ALPN == <<65, 76, 80, 78, 61>>                    \* "ALPN="
S_Server == <<83, 101, 114, 118, 101, 114, 61>>     \* "Server="
S_CommaSp == <<44, 32>>                             \* ", "

-----------------------------------------------------------------------------
(* Go's strings package, on sequences of code points *)

HasPrefix(s, p) == Len(s) >= Len(p) /\ SubSeq(s, 1, Len(p)) = p

Contains(s, sub) ==
    \E i \in 0..(Len(s) - Len(sub)) : SubSeq(s, i + 1, i + Len(sub)) = sub

\* unicode.ToUpper / ToLower; the model's alphabet holds ASCII and caseless
\* code points only
ToUpper(s) == [i \in 1..Len(s) |-> IF s[i] \in 97..122 THEN s[i] - 32 ELSE s[i]]

ToLower(s) == [i \in 1..Len(s) |-> IF s[i] \in 65..90 THEN s[i] + 32 ELSE s[i]]

\* unicode.IsSpace on Latin-1: \t \n \v \f \r space, U+0085, U+00A0
IsSpace(r) == r \in {9, 10, 11, 12, 13, 32, 133, 160}

TrimSpace(s) ==
    LET keep == {i \in 1..Len(s) : ~IsSpace(s[i])}
    IN IF keep = {} THEN <<>>
       ELSE SubSeq(s, CHOOSE i \in keep : \A j \in keep : i <= j,
                      CHOOSE i \in keep : \A j \in keep : j <= i)

\* strings.Join(parts, sep)
RECURSIVE Join(_, _)
Join(parts, sep) ==
    IF parts = <<>> THEN <<>>
    ELSE IF Len(parts) = 1 THEN parts[1]
    ELSE parts[1] \o sep \o Join(Tail(parts), sep)

\* lexicographic order of two strings (Go's < on strings)
RECURSIVE StrLess(_, _)
StrLess(a, b) ==
    IF b = <<>> THEN FALSE
    ELSE IF a = <<>> THEN TRUE
    ELSE IF a[1] # b[1] THEN a[1] < b[1]
    ELSE StrLess(Tail(a), Tail(b))

\* bufio.Reader.ReadString('\n') on the bytes still to arrive before the
\* deadline: the line with its delimiter, or what there is and an error
ReadString(rd) ==
    LET nl == {i \in 1..Len(rd) : rd[i] = 10}
    IN IF nl = {} THEN [line |-> rd, rest |-> <<>>, err |-> TRUE]
       ELSE LET i == CHOOSE k \in nl : \A j \in nl : k <= j
            IN [line |-> SubSeq(rd, 1, i),
                rest |-> SubSeq(rd, i + 1, Len(rd)),
                err |-> FALSE]

-----------------------------------------------------------------------------
(* sanitizeBanner *)

\* the loop of sanitizeBanner with a dropped character ending a run of spaces
RECURSIVE sanitizeLoop_resetOnDrop(_, _, _, _)
sanitizeLoop_resetOnDrop(s, i, res, lastSpace) ==
    IF i > Len(s) THEN res
    ELSE LET r == s[i]
         IN IF r < 32 \/ r > 126
            THEN sanitizeLoop_resetOnDrop(s, i + 1, res, FALSE)
            ELSE IF r \in {10, 13, 9, 32}
            THEN IF ~lastSpace
                 THEN sanitizeLoop_resetOnDrop(s, i + 1, Append(res, 32), TRUE)
                 ELSE sanitizeLoop_resetOnDrop(s, i + 1, res, lastSpace)
            ELSE sanitizeLoop_resetOnDrop(s, i + 1, Append(res, r), FALSE)

sanitizeBanner_resetOnDrop(s) == sanitizeLoop_resetOnDrop(s, 1, <<>>, FALSE)

\* the loop of sanitizeBanner with the upper limit of the range left out
RECURSIVE sanitizeLoop_noUpper(_, _, _, _)
sanitizeLoop_noUpper(s, i, res, lastSpace) ==
    IF i > Len(s) THEN res
    ELSE LET r == s[i]
         IN IF r < 32
            THEN sanitizeLoop_noUpper(s, i + 1, res, lastSpace)
            ELSE IF r \in {10, 13, 9, 32}
            THEN IF ~lastSpace
                 THEN sanitizeLoop_noUpper(s, i + 1, Append(res, 32), TRUE)
                 ELSE sanitizeLoop_noUpper(s, i + 1, res, lastSpace)
            ELSE sanitizeLoop_noUpper(s, i + 1, Append(res, r), FALSE)

sanitizeBanner_noUpper(s) == sanitizeLoop_noUpper(s, 1, <<>>, FALSE)

\* for _, r := range s { ... }: i is the position, res and lastSpace the locals
RECURSIVE sanitizeLoop(_, _, _, _)
sanitizeLoop(s, i, res, lastSpace) ==
    IF i > Len(s) THEN res
    ELSE LET r == s[i]
         IN IF r < 32 \/ r > 126
            THEN sanitizeLoop(s, i + 1, res, lastSpace)
            ELSE IF r \in {10, 13, 9, 32}
            THEN IF ~lastSpace
                 THEN sanitizeLoop(s, i + 1, Append(res, 32), TRUE)
                 ELSE sanitizeLoop(s, i + 1, res, lastSpace)
            ELSE sanitizeLoop(s, i + 1, Append(res, r), FALSE)

sanitizeBanner(s) == sanitizeLoop(s, 1, <<>>, FALSE)

-----------------------------------------------------------------------------
(* The connection a dial meets.  A connection is a record                  *)
(*   open   the TCP connect succeeds within the timeout                    *)
(*   err    err.Error() of the failed dial                                 *)
(*   read1  the bytes the first conn.Read returns (<<>>: deadline passed)  *)
(*   read2  the bytes a second conn.Read returns                           *)
(*   http   the bytes that arrive after the GET request, before the        *)
(*          read deadline                                                  *)
(*   tls    the handshake: ok, and when ok the peer certificate (certs,    *)
(*          cn, iss), the ALPN protocol and the bytes answering HEAD       *)
(***************************************************************************)

isHTTPPort(p) == p \in {80, 8000, 8080, 8081, 8888, 9000, 9090}

isTLSPort(p) == p \in {443, 8443, 993, 995, 465, 9443}

\* the header loop shared by httpProbe and tlsProbe: at most MaxHeaders
\* lines, up to a read error or a blank line; the last Server header wins
RECURSIVE serverHeader(_, _, _)
serverHeader(rd, i, server) ==
    IF i >= MaxHeaders THEN server
    ELSE LET h == ReadString(rd)
         IN IF h.err THEN server
            ELSE LET hs == TrimSpace(h.line)
                 IN IF hs = <<>> THEN server
                    ELSE serverHeader(h.rest, i + 1,
                           IF HasPrefix(ToLower(hs), S_server)
                           THEN sanitizeBanner(TrimSpace(SubSeq(hs, 8, Len(hs))))
                           ELSE server)

\* httpProbe with the fingerprint left to the status line alone
httpProbe_noServer(h, conn) ==
    LET first == ReadString(conn.http)
        line == sanitizeBanner(first.line)
    IN IF HasPrefix(line, S_HTTP)
       THEN [service |-> "http", banner |-> line, fp |-> TrimSpace(line)]
       ELSE [service |-> "", banner |-> <<>>, fp |-> <<>>]

httpProbe(h, conn) ==
    LET first == ReadString(conn.http)
        line == sanitizeBanner(first.line)
    IN IF HasPrefix(line, S_HTTP)
       THEN [service |-> "http", banner |-> line,
             fp |-> TrimSpace(Join(<<line, serverHeader(first.rest, 0, <<>>)>>, <<32>>))]
       ELSE [service |-> "", banner |-> <<>>, fp |-> <<>>]

tlsService(port) ==
    CASE port \in {443, 8443, 9443} -> "https"
      [] port = 993 -> "imaps"
      [] port = 995 -> "pop3s"
      [] port = 465 -> "smtps"
      [] OTHER -> "tls"

tlsProbe(h, conn, port) ==
    IF ~conn.tls.ok THEN [service |-> "", banner |-> <<>>, fp |-> <<>>]
    ELSE
    LET cs == conn.tls
        svc == tlsService(port)
        certParts ==
            IF cs.certs
            THEN (IF cs.cn # <<>> THEN <<S_CN \o sanitizeBanner(cs.cn)>> ELSE <<>>)
                 \o (IF cs.iss # <<>> THEN <<S_Issuer \o sanitizeBanner(cs.iss)>> ELSE <<>>)
            ELSE <<>>
        fpParts == certParts \o (IF cs.alpn # <<>> THEN <<S_ALPN \o cs.alpn>> ELSE <<>>)
        fp == Join(fpParts, S_CommaSp)
        first == ReadString(cs.head)
        line == sanitizeBanner(first.line)
        server == serverHeader(first.rest, 0, <<>>)
    IN IF svc = "https" /\ HasPrefix(line, S_HTTP)
       THEN [service |-> svc, banner |-> line,
             fp |-> IF server # <<>>
                    THEN (IF fp # <<>> THEN fp \o S_CommaSp ELSE fp) \o S_Server \o server
                    ELSE fp]
       ELSE [service |-> svc, banner |-> <<>>, fp |-> fp]

\* what the prober does to the connection, in order
httpOps == <<"write", "read">>

tlsOps(conn, port) ==
    IF conn.tls.ok /\ tlsService(port) = "https"
    THEN <<"handshake", "write", "read">> ELSE <<"handshake">>

\* n, _ := conn.Read(buf): at most len(buf) bytes
Read(bytes) == SubSeq(bytes, 1, IF Len(bytes) < BufSize THEN Len(bytes) ELSE BufSize)

Triple(svc, b, f, o) == [service |-> svc, banner |-> b, fp |-> f, ops |-> o]

\* the cascade after the SSH branch: SMTP, FTP, POP3, IMAP, HTTP, TLS, fallback
cascade(h, port, conn, banner) ==
    LET up == ToUpper(banner)
        hp == httpProbe(h, conn)
        tp == tlsProbe(h, conn, port)
        tryHTTP == isHTTPPort(port)
        tryTLS == isTLSPort(port) /\ ~(tryHTTP /\ hp.service # "")
        ops == <<"read">> \o (IF tryHTTP THEN httpOps ELSE <<>>)
                          \o (IF tryTLS THEN tlsOps(conn, port) ELSE <<>>)
    IN IF port \in {25, 587, 465} /\ (Contains(up, S_SMTP) \/ HasPrefix(banner, S_220))
       THEN Triple("smtp", banner, banner, <<"read">>)
       ELSE IF port = 21 /\ (HasPrefix(banner, S_220) \/ Contains(up, S_FTP))
       THEN Triple("ftp", banner, banner, <<"read">>)
       ELSE IF port = 110 /\ (HasPrefix(banner, S_OK) \/ Contains(up, S_POP3))
       THEN Triple("pop3", banner, banner, <<"read">>)
       ELSE IF port = 143 /\ (HasPrefix(banner, S_STAROK) \/ Contains(up, S_IMAP))
       THEN Triple("imap", banner, banner, <<"read">>)
       ELSE IF tryHTTP /\ hp.service # ""
       THEN Triple(hp.service, hp.banner, hp.fp, ops)
       ELSE IF tryTLS /\ tp.service # ""
       THEN Triple(tp.service, tp.banner, tp.fp, ops)
       ELSE Triple("", banner, <<>>, ops)

\* fingerprintService without the second read of the SSH branch
fingerprintService_noRetry(h, port, conn) ==
    LET n == Len(Read(conn.read1))
        banner == IF n > 0 THEN sanitizeBanner(Read(conn.read1)) ELSE <<>>
    IN IF HasPrefix(banner, S_SSH) \/ port = 22
       THEN Triple("ssh", banner, banner, <<"read">>)
       ELSE cascade(h, port, conn, banner)

\* fingerprintService taking the SSH branch on the port hint alone
fingerprintService_portFirst(h, port, conn) ==
    LET n == Len(Read(conn.read1))
        banner == IF n > 0 THEN sanitizeBanner(Read(conn.read1)) ELSE <<>>
    IN IF port = 22
       THEN LET n2 == Len(Read(conn.read2))
                again == IF n2 > 0 THEN sanitizeBanner(Read(conn.read2)) ELSE <<>>
                b == IF banner = <<>> THEN again ELSE banner
                ops == IF banner = <<>> THEN <<"read", "read">> ELSE <<"read">>
            IN Triple("ssh", b, b, ops)
       ELSE cascade(h, port, conn, banner)

fingerprintService(h, port, conn) ==
    LET n == Len(Read(conn.read1))
        banner == IF n > 0 THEN sanitizeBanner(Read(conn.read1)) ELSE <<>>
    IN IF HasPrefix(banner, S_SSH) \/ port = 22
       THEN LET n2 == Len(Read(conn.read2))
                again == IF n2 > 0 THEN sanitizeBanner(Read(conn.read2)) ELSE <<>>
                b == IF banner = <<>> THEN again ELSE banner
                ops == IF banner = <<>> THEN <<"read", "read">> ELSE <<"read">>
            IN Triple("ssh", b, b, ops)
       ELSE cascade(h, port, conn, banner)

knownServiceForPort(p) ==
    CASE p = 1 -> "tcpmux" [] p = 7 -> "echo" [] p = 13 -> "daytime"
      [] p = 19 -> "chargen" [] p = 20 -> "ftp-data" [] p = 21 -> "ftp"
      [] p = 22 -> "ssh" [] p = 23 -> "telnet" [] p = 25 -> "smtp"
      [] p = 53 -> "dns" [] p = 67 -> "dhcp-server" [] p = 68 -> "dhcp-client"
      [] p = 69 -> "tftp" [] p = 80 -> "http" [] p = 110 -> "pop3"
      [] p = 111 -> "rpcbind" [] p = 123 -> "ntp" [] p = 135 -> "msrpc"
      [] p = 139 -> "netbios-ssn" [] p = 143 -> "imap" [] p = 161 -> "snmp"
      [] p = 162 -> "snmp-trap" [] p = 389 -> "ldap" [] p = 443 -> "https"
      [] p = 445 -> "smb" [] p = 465 -> "smtps" [] p = 500 -> "isakmp"
      [] p = 587 -> "submission" [] p = 631 -> "ipp" [] p = 993 -> "imaps"
      [] p = 995 -> "pop3s" [] p = 1433 -> "mssql" [] p = 1521 -> "oracle"
      [] p = 1723 -> "pptp" [] p = 2049 -> "nfs" [] p = 2181 -> "zookeeper"
      [] p = 3128 -> "proxy" [] p = 3306 -> "mysql" [] p = 3389 -> "rdp"
      [] p = 5432 -> "postgresql" [] p = 5900 -> "vnc" [] p = 6379 -> "redis"
      [] p = 7001 -> "http-alt" [] p = 8080 -> "http-alt" [] p = 8443 -> "https-alt"
      [] p = 8888 -> "http-alt" [] p = 9000 -> "http-alt" [] p = 9090 -> "http-alt"
      [] p = 9200 -> "elasticsearch" [] p = 27017 -> "mongodb"
      [] p = 11211 -> "memcached"
      [] OTHER -> ""

-----------------------------------------------------------------------------
(* The inputs of a scan *)

HostA == <<97>>     \* "a"
HostB == <<98>>     \* "b"
Hosts == {HostA, HostB}

GreetSSH == <<83, 83, 72, 45, 50, 46, 48, 45, 79, 112, 101, 110, 83, 83, 72, 13, 10>>  \* "SSH-2.0-OpenSSH\r\n"
GreetSMTP == <<50, 50, 48, 32, 109, 120, 32, 69, 83, 77, 84, 80, 13, 10>>  \* "220 mx ESMTP\r\n"
GreetMisc == <<104, 105, 32, 9, 32, 116, 104, 101, 114, 101, 10>>  \* "hi \t there\n"
RespNginx == <<72, 84, 84, 80, 47, 49, 46, 49, 32, 50, 48, 48, 32, 79, 75, 13, 10, 83, 101, 114, 118, 101, 114, 58, 32, 110, 103, 105, 110, 120, 13, 10, 13, 10>>  \* "HTTP/1.1 200 OK\r\nServer: nginx\r\n\r\n"
CertCN == <<101, 120, 97, 109, 112, 108, 101, 46, 111, 114, 103>>  \* "example.org"
CertIssuer == <<82, 51, 32, 67, 65>>  \* "R3 CA"
AlpnH2 == <<104, 50>>  \* "h2"

NoTLS == [ok |-> FALSE, certs |-> FALSE, cn |-> <<>>, iss |-> <<>>,
          alpn |-> <<>>, head |-> <<>>]
Refused == [open |-> FALSE, err |-> "dial tcp: connect: connection refused",
            read1 |-> <<>>, read2 |-> <<>>, http |-> <<>>, tls |-> NoTLS]
Silent == [open |-> TRUE, err |-> "", read1 |-> <<>>, read2 |-> <<>>,
           http |-> <<>>, tls |-> NoTLS]
Greets(g) == [Silent EXCEPT !.read1 = g]
Web(resp) == [Silent EXCEPT !.http = resp]
Secure(t) == [Silent EXCEPT !.tls = t]
CertTLS == [ok |-> TRUE, certs |-> TRUE, cn |-> CertCN, iss |-> CertIssuer,
            alpn |-> AlpnH2, head |-> RespNginx]

\* the ports of the scans, and what may answer on each
ScanPorts == {22, 9999}
Typical(p) ==
    CASE p = 22 -> Greets(GreetSSH)
      [] p = 80 -> Web(RespNginx)
      [] p = 443 -> Secure(CertTLS)
      [] p = 587 -> Greets(GreetSMTP)
      [] OTHER -> Greets(GreetMisc)
ScanConns(p) == {Refused, Silent, Typical(p)}
AllScanConns == UNION {ScanConns(p) : p \in ScanPorts}

SeqsUpTo(S, n) == UNION {[1..k -> S] : k \in 0..n}
Range(s) == {s[i] : i \in 1..Len(s)}
TargetsFor(ps) ==
    {t \in [Range(ps) -> AllScanConns] : \A p \in Range(ps) : t[p] \in ScanConns(p)}

WorkerArgs == 0..MaxWorkers
\* time.Since(start), in some unit
Latencies == {1, 2}

-----------------------------------------------------------------------------
(* ScanHostPorts *)

\* closedResult dropping the error text
closedResult_noErr(h, p, lat, conn) ==
    [r |-> [Host |-> h, Port |-> p, Open |-> FALSE, Latency |-> lat,
            Service |-> "", Banner |-> <<>>, Fingerprint |-> <<>>,
            Err |-> ""],
     io |-> <<>>]

\* line 55: the Result of a failed dial
closedResult(h, p, lat, conn) ==
    [r |-> [Host |-> h, Port |-> p, Open |-> FALSE, Latency |-> lat,
            Service |-> "", Banner |-> <<>>, Fingerprint |-> <<>>,
            Err |-> conn.err],
     io |-> <<>>]

\* openResult reporting a probe that classified nothing as a failure
openResult_probeError(h, p, lat, prb, conn) ==
    LET f == IF prb THEN fingerprintService(h, p, conn)
             ELSE Triple("", <<>>, <<>>, <<>>)
        service == IF f.service = "" THEN knownServiceForPort(p) ELSE f.service
        failed == prb /\ f.service = "" /\ f.banner = <<>>
    IN [r |-> [Host |-> h, Port |-> p, Open |-> ~failed, Latency |-> lat,
               Service |-> service, Banner |-> f.banner,
               Fingerprint |-> f.fp,
               Err |-> IF failed THEN "probe failed" ELSE ""],
        io |-> f.ops]

\* openResult probing whatever the flag says
openResult_alwaysProbe(h, p, lat, prb, conn) ==
    LET f == fingerprintService(h, p, conn)
        service == IF f.service = "" THEN knownServiceForPort(p) ELSE f.service
    IN [r |-> [Host |-> h, Port |-> p, Open |-> TRUE, Latency |-> lat,
               Service |-> service, Banner |-> f.banner,
               Fingerprint |-> f.fp, Err |-> ""],
        io |-> f.ops]

\* openResult with the table's service put before the prober's
openResult_tableFirst(h, p, lat, prb, conn) ==
    LET f == IF prb THEN fingerprintService(h, p, conn)
             ELSE Triple("", <<>>, <<>>, <<>>)
        service == IF knownServiceForPort(p) # "" THEN knownServiceForPort(p)
                   ELSE f.service
    IN [r |-> [Host |-> h, Port |-> p, Open |-> TRUE, Latency |-> lat,
               Service |-> service, Banner |-> f.banner,
               Fingerprint |-> f.fp, Err |-> ""],
        io |-> f.ops]

\* lines 44-53: the Result of a successful dial, and what was done to conn
openResult(h, p, lat, prb, conn) ==
    LET f == IF prb THEN fingerprintService(h, p, conn)
             ELSE Triple("", <<>>, <<>>, <<>>)
        service == IF f.service = "" THEN knownServiceForPort(p) ELSE f.service
    IN [r |-> [Host |-> h, Port |-> p, Open |-> TRUE, Latency |-> lat,
               Service |-> service, Banner |-> f.banner,
               Fingerprint |-> f.fp, Err |-> ""],
        io |-> f.ops]

\* less with the port comparison turned round
less_descending(a, b) ==
    IF a.Host = b.Host THEN a.Port > b.Port ELSE StrLess(a.Host, b.Host)

\* the less function handed to sort.Slice
less(a, b) ==
    IF a.Host = b.Host THEN a.Port < b.Port ELSE StrLess(a.Host, b.Host)

\* the slice returned as collected
sortSlice_asCollected(s) == {s}

\* sort.Slice is not stable: any permutation in which no element is less
\* than an earlier one
sortSlice(s) ==
    LET perms == {f \in [1..Len(s) -> 1..Len(s)] :
                     \A i, j \in 1..Len(s) : i # j => f[i] # f[j]}
        sorted(t) == \A i, j \in 1..Len(t) : i < j => ~less(t[j], t[i])
    IN {t \in {[i \in 1..Len(s) |-> s[f[i]]] : f \in perms} : sorted(t)}

Recv == [pc |-> "recv"]
Exited == [pc |-> "done"]
\* one worker goroutine moves from local state a to local state b
Move(a, b) == (pool (-) SetToBag({a})) (+) SetToBag({b})

\* the parts of the state a specification does not use
SanOff == sanIn = <<>> /\ sanOut = <<>>
FpOff ==
    /\ fpPort = 0 /\ fpConn = Silent /\ fpRes = <<>> /\ fpRet = <<>>
    /\ fpPc = "off"
PpOff == ppSpec = <<>> /\ ppRes = <<>> /\ ppPc = "off"
MainOff ==
    /\ hostsSpec = <<>> /\ portsSpec = <<>> /\ workersFlag = 0
    /\ jsonOut = FALSE /\ includeClosed = FALSE /\ hostsUp = {} /\ listening = {}
    /\ items = <<>> /\ itemIdx = 1 /\ inLoop = FALSE /\ cur = <<0, 0>> /\ end = <<0, 0>>
    /\ hosts = <<>> /\ portsList = <<>> /\ hostIdx = 1 /\ allResults = <<>>
    /\ emitted = <<>> /\ mPc = "off"
ScanOff ==
    /\ ports = <<>> /\ workersArg = 0 /\ target = <<>> /\ workers = 0
    /\ wg = 0 /\ pool = EmptyBag /\ jobsNext = 1 /\ jobsClosed = FALSE
    /\ resultsClosed = FALSE /\ dispPc = "off" /\ mainPc = "off"
    /\ out = <<>> /\ ret = <<>>

Init ==
    /\ host \in Hosts
    /\ ports \in SeqsUpTo(ScanPorts, MaxPorts)
    /\ workersArg \in WorkerArgs
    /\ probe \in BOOLEAN
    /\ target \in TargetsFor(ports)
    /\ workers = workersArg
    /\ wg = 0
    /\ pool = EmptyBag
    /\ jobsNext = 1
    /\ jobsClosed = FALSE
    /\ resultsClosed = FALSE
    /\ dispPc = "start"
    /\ mainPc = "start"
    /\ out = <<>>
    /\ ret = <<>>
    /\ SanOff
    /\ FpOff
    /\ PpOff
    /\ MainOff

\* Start without the coercion of lines 27-29
Start_noDefault ==
    /\ mainPc = "start"
    /\ workers' = workersArg
    /\ wg' = workersArg
    /\ pool' = IF workersArg > 0 THEN [w \in {Recv} |-> workersArg] ELSE EmptyBag
    /\ dispPc' = "send"
    /\ mainPc' = "collect"
    /\ UNCHANGED <<host, ports, workersArg, probe, target, jobsNext,
                   jobsClosed, resultsClosed, out, ret, others>>

\* lines 27-68: coerce the worker count, make the channels, start the
\* workers and the dispatcher
Start ==
    /\ mainPc = "start"
    /\ LET n == IF workersArg <= 0 THEN DefaultWorkers ELSE workersArg
       IN /\ workers' = n
          /\ wg' = n
          /\ pool' = [w \in {Recv} |-> n]
    /\ dispPc' = "send"
    /\ mainPc' = "collect"
    /\ UNCHANGED <<host, ports, workersArg, probe, target, jobsNext,
                   jobsClosed, resultsClosed, out, ret, others>>

\* Dispatch with the job received by every idle worker
Dispatch_allReceive ==
    /\ dispPc = "send"
    /\ jobsNext <= Len(ports)
    /\ BagIn(Recv, pool)
    /\ pool' = (pool (-) [w \in {Recv} |-> CopiesIn(Recv, pool)])
                (+) [w \in {[pc |-> "dial", p |-> ports[jobsNext]]} |->
                        CopiesIn(Recv, pool)]
    /\ jobsNext' = jobsNext + 1
    /\ UNCHANGED <<host, ports, workersArg, probe, target, workers, wg,
                   jobsClosed, resultsClosed, dispPc, mainPc, out, ret, others>>

\* Dispatch with a goroutine started for the job when no worker is idle
Dispatch_spawn ==
    /\ dispPc = "send"
    /\ jobsNext <= Len(ports)
    /\ pool' = IF BagIn(Recv, pool)
               THEN Move(Recv, [pc |-> "dial", p |-> ports[jobsNext]])
               ELSE pool (+) SetToBag({[pc |-> "dial", p |-> ports[jobsNext]]})
    /\ wg' = IF BagIn(Recv, pool) THEN wg ELSE wg + 1
    /\ jobsNext' = jobsNext + 1
    /\ UNCHANGED <<host, ports, workersArg, probe, target, workers,
                   jobsClosed, resultsClosed, dispPc, mainPc, out, ret, others>>

\* line 63 meets line 38: jobs is unbuffered, the dispatcher's send and one
\* worker's receive happen together
Dispatch ==
    /\ dispPc = "send"
    /\ jobsNext <= Len(ports)
    /\ BagIn(Recv, pool)
    /\ pool' = Move(Recv, [pc |-> "dial", p |-> ports[jobsNext]])
    /\ jobsNext' = jobsNext + 1
    /\ UNCHANGED <<host, ports, workersArg, probe, target, workers, wg,
                   jobsClosed, resultsClosed, dispPc, mainPc, out, ret, others>>

\* line 65
CloseJobs ==
    /\ dispPc = "send"
    /\ jobsNext > Len(ports)
    /\ jobsClosed' = TRUE
    /\ dispPc' = "wait"
    /\ UNCHANGED <<host, ports, workersArg, probe, target, workers, wg, pool,
                   jobsNext, resultsClosed, mainPc, out, ret, others>>

\* lines 39-52 and the Result of line 53 or 55: the worker dials, probes and
\* closes its own connection; nothing here is shared with another goroutine
Dial ==
    \E w \in BagToSet(pool), lat \in Latencies :
        /\ w.pc = "dial"
        /\ pool' = Move(w, [pc |-> "send"] @@
                           (IF target[w.p].open
                            THEN openResult(host, w.p, lat, probe, target[w.p])
                            ELSE closedResult(host, w.p, lat, target[w.p])))
        /\ UNCHANGED <<host, ports, workersArg, probe, target, workers, wg,
                       jobsNext, jobsClosed, resultsClosed, dispPc, mainPc,
                       out, ret, others>>

\* lines 53/55 meet lines 71-72: results is unbuffered, a worker's send and
\* the collector's receive happen together
Collect ==
    \E w \in BagToSet(pool) :
        /\ w.pc = "send"
        /\ mainPc = "collect"
        /\ ~resultsClosed
        /\ out' = Append(out, w.r)
        /\ pool' = Move(w, Recv)
        /\ UNCHANGED <<host, ports, workersArg, probe, target, workers, wg,
                       jobsNext, jobsClosed, resultsClosed, dispPc, mainPc, ret, others>>

\* line 38 on the closed channel, then the deferred wg.Done() of line 37
WorkerExit ==
    /\ jobsClosed
    /\ BagIn(Recv, pool)
    /\ pool' = Move(Recv, Exited)
    /\ wg' = wg - 1
    /\ UNCHANGED <<host, ports, workersArg, probe, target, workers, jobsNext,
                   jobsClosed, resultsClosed, dispPc, mainPc, out, ret, others>>

\* the dispatcher going on to close(results) without wg.Wait()
WgWait_noWait ==
    /\ dispPc = "wait"
    /\ dispPc' = "close"
    /\ UNCHANGED <<host, ports, workersArg, probe, target, workers, wg, pool,
                   jobsNext, jobsClosed, resultsClosed, mainPc, out, ret, others>>

\* line 66
WgWait ==
    /\ dispPc = "wait"
    /\ wg = 0
    /\ dispPc' = "close"
    /\ UNCHANGED <<host, ports, workersArg, probe, target, workers, wg, pool,
                   jobsNext, jobsClosed, resultsClosed, mainPc, out, ret, others>>

\* line 67
CloseResults ==
    /\ dispPc = "close"
    /\ resultsClosed' = TRUE
    /\ dispPc' = "done"
    /\ UNCHANGED <<host, ports, workersArg, probe, target, workers, wg, pool,
                   jobsNext, jobsClosed, mainPc, out, ret, others>>

\* lines 71-81: the range over the closed channel ends, the slice is sorted
\* and returned
Return ==
    /\ mainPc = "collect"
    /\ resultsClosed
    /\ ret' \in sortSlice(out)
    /\ mainPc' = "returned"
    /\ UNCHANGED <<host, ports, workersArg, probe, target, workers, wg, pool,
                   jobsNext, jobsClosed, resultsClosed, dispPc, out, others>>

Next ==
    \/ Start \/ WorkerExit \/ WgWait \/ CloseResults \/ Return
    \/ CloseJobs \/ Dispatch \/ Collect \/ Dial

Spec == Init /\ [][Next]_vars

\* Termination is about the lengths of the port list and of the pool, not
\* about what answers: every dial and probe ends whatever the target is.  The
\* fair specification draws every port list and every worker count, negative
\* ones too, and lets every port answer, or every port refuse.
LiveInit ==
    /\ host = HostA
    /\ ports \in SeqsUpTo(ScanPorts, MaxPorts)
    /\ workersArg \in {-1} \cup WorkerArgs
    /\ probe = TRUE
    /\ target \in {[p \in Range(ports) |-> Typical(p)],
                  [p \in Range(ports) |-> Refused]}
    /\ workers = workersArg
    /\ wg = 0
    /\ pool = EmptyBag
    /\ jobsNext = 1
    /\ jobsClosed = FALSE
    /\ resultsClosed = FALSE
    /\ dispPc = "start"
    /\ mainPc = "start"
    /\ out = <<>>
    /\ ret = <<>>
    /\ SanOff
    /\ FpOff
    /\ PpOff
    /\ MainOff

\* the Go scheduler runs every goroutine that can take a step
FairSpec == LiveInit /\ [][Next]_vars /\ WF_vars(Next)

-----------------------------------------------------------------------------
(* sanitizeBanner on drawn strings: called on the raw string, then on its  *)
(* own output                                                              *)

\* control characters, the ends of the printable range, a letter, and
\* characters beyond ASCII
Chars == {9, 10, 13, 31, 32, 65, 126, 127, 8364}

SanInit ==
    /\ sanIn \in SeqsUpTo(Chars, MaxLen)
    /\ sanOut = <<>>
    /\ host = HostA /\ probe = FALSE
    /\ ScanOff
    /\ FpOff
    /\ PpOff
    /\ MainOff

Sanitize ==
    /\ Len(sanOut) < 2
    /\ sanOut' = Append(sanOut, sanitizeBanner(IF sanOut = <<>> THEN sanIn
                                               ELSE sanOut[Len(sanOut)]))
    /\ UNCHANGED <<sanIn, scanVars, fpVars, ppVars, mainVars>>

SanNext == Sanitize

SpecSan == SanInit /\ [][SanNext]_vars

-----------------------------------------------------------------------------
(* One iteration of a worker (lines 39-56) on a drawn port and connection  *)

CRLF == <<13, 10>>
GreetFTP == <<50, 50, 48, 32, 70, 84, 80, 13, 10>>  \* "220 FTP\r\n"
GreetPOP == <<43, 79, 75, 13, 10>>  \* "+OK\r\n"
GreetIMAP == <<42, 32, 79, 75, 32, 73, 77, 65, 80, 13, 10>>  \* "* OK IMAP\r\n"
GreetCtl == <<0, 1>>  \* "\x00\x01"
Greetings == {<<>>, GreetSSH, GreetSMTP, GreetFTP, GreetPOP, GreetIMAP,
              GreetMisc, GreetCtl}

StatusOK == <<72, 84, 84, 80, 47, 49, 46, 49, 32, 50, 48, 48, 32, 79, 75>>  \* "HTTP/1.1 200 OK"
StatusNoReason == <<72, 84, 84, 80, 47, 49, 46, 49, 32, 50, 48, 48, 32>>  \* "HTTP/1.1 200 "
StatusOdd == <<72, 84, 84, 80, 47, 49, 46, 48, 32, 52, 48, 52, 32, 32, 78, 111, 116, 9, 70, 111, 117, 110, 100>>  \* "HTTP/1.0 404  Not\tFound"
StatusLines == {StatusOK, StatusNoReason, StatusOdd}
Nginx == <<110, 103, 105, 110, 120>>  \* "nginx"
ServerOdd == <<32, 110, 103, 32, 105, 110, 120, 32, 1>>  \* " ng inx \x01"
ServerValues == {Nginx, ServerOdd}
S_ServerColon == <<83, 101, 114, 118, 101, 114, 58, 32>>  \* "Server: "
\* a status line, a Server header and a blank line
HttpResponse(status, value) ==
    status \o CRLF \o S_ServerColon \o value \o CRLF \o CRLF
RespNoServer == <<72, 84, 84, 80, 47, 49, 46, 49, 32, 50, 48, 48, 32, 79, 75, 13, 10, 68, 97, 116, 101, 58, 32, 120, 13, 10, 13, 10>>  \* "HTTP/1.1 200 OK\r\nDate: x\r\n\r\n"
RespLower == <<72, 84, 84, 80, 47, 49, 46, 49, 32, 50, 48, 48, 32, 79, 75, 10, 115, 69, 114, 86, 101, 82, 58, 110, 103, 105, 110, 120, 10, 10>>  \* "HTTP/1.1 200 OK\nsErVeR:nginx\n\n"
RespBad == <<104, 101, 108, 108, 111, 13, 10>>  \* "hello\r\n"
HttpAnswers ==
    {HttpResponse(st, v) : st \in StatusLines, v \in ServerValues}
    \cup {<<>>, StatusOK, RespNoServer, RespLower, RespBad}

BareTLS == [NoTLS EXCEPT !.ok = TRUE]
PlainTLS == [CertTLS EXCEPT !.iss = <<>>, !.alpn = <<>>, !.head = RespBad]
Handshakes == {NoTLS, BareTLS, CertTLS, PlainTLS}

ProbePorts == {21, 22, 25, 80, 110, 143, 443, 465, 587, 993, 8080, 9999}
ProbeConns ==
    {Refused} \cup
    {[open |-> TRUE, err |-> "", read1 |-> g, read2 |-> g2, http |-> a, tls |-> t] :
        g \in Greetings, g2 \in {<<>>, GreetSSH}, a \in HttpAnswers, t \in Handshakes}

ProbeInit ==
    /\ host \in Hosts
    /\ probe \in BOOLEAN
    /\ fpPort \in ProbePorts
    /\ fpConn \in ProbeConns
    /\ fpRes = <<>>
    /\ fpRet = <<>>
    /\ fpPc = "dial"
    /\ ScanOff
    /\ SanOff
    /\ PpOff
    /\ MainOff

\* lines 39-56 for one job
DialOne ==
    /\ fpPc = "dial"
    /\ \E lat \in Latencies :
          fpRes' = IF fpConn.open
                   THEN openResult(host, fpPort, lat, probe, fpConn)
                   ELSE closedResult(host, fpPort, lat, fpConn)
    /\ fpRet' = IF fpConn.open /\ probe
                THEN fingerprintService(host, fpPort, fpConn)
                ELSE <<>>
    /\ fpPc' = "done"
    /\ UNCHANGED <<fpPort, fpConn, scanVars, sanVars, ppVars, mainVars>>

ProbeNext == DialOne

SpecProbe == ProbeInit /\ [][ProbeNext]_vars

-----------------------------------------------------------------------------
(* main.go: the command line parsers *)

S_top == <<116, 111, 112, 58>>                      \* "top:"
\* n := 100
DefaultTop == 100
\* if i <= 65535
MaxPort == 65535

\* strings.Split(s, sep) for a one-character separator
RECURSIVE Split(_, _)
Split(s, c) ==
    LET at == {i \in 1..Len(s) : s[i] = c}
    IN IF at = {} THEN <<s>>
       ELSE LET i == CHOOSE k \in at : \A j \in at : k <= j
            IN <<SubSeq(s, 1, i - 1)>> \o Split(SubSeq(s, i + 1, Len(s)), c)

\* strings.SplitN(s, sep, 2) on a string that contains the separator
SplitN2(s, c) ==
    LET i == CHOOSE k \in 1..Len(s) : s[k] = c /\ \A j \in 1..(k - 1) : s[j] # c
    IN <<SubSeq(s, 1, i - 1), SubSeq(s, i + 1, Len(s))>>

\* the value of a string of decimal digits
RECURSIVE digitsVal(_, _)
digitsVal(s, acc) ==
    IF s = <<>> THEN acc ELSE digitsVal(Tail(s), 10 * acc + (s[1] - 48))

\* strconv.Atoi: an optional sign, then one or more digits and nothing else
\* (the drawn strings are too short to overflow an int)
Atoi(s) ==
    LET signed == s # <<>> /\ s[1] \in {43, 45}
        body == IF signed THEN Tail(s) ELSE s
    IN IF body = <<>> \/ \E i \in 1..Len(body) : body[i] \notin 48..57
       THEN [ok |-> FALSE, val |-> 0]
       ELSE [ok |-> TRUE,
             val |-> IF signed /\ s[1] = 45 THEN 0 - digitsVal(body, 0)
                     ELSE digitsVal(body, 0)]

\* strconv.Itoa of a natural number
RECURSIVE Itoa(_)
Itoa(n) == IF n < 10 THEN <<48 + n>> ELSE Itoa(n \div 10) \o <<48 + (n % 10)>>

TopList == <<
    80, 443, 22, 21, 25, 53, 110, 995, 143, 993,
    587, 3306, 3389, 135, 139, 445, 8080, 8443, 5900, 23,
    8000, 1723, 111, 123, 500, 1433, 1521, 5432, 6379, 27017,
    11211, 389, 636, 554, 1720, 5060, 5061, 88, 1900, 5353,
    49152, 49153, 49154, 49155, 1025, 1026, 1027, 1028, 69, 161,
    162, 5000, 5001, 5985, 8081, 8082, 8083, 8444, 9000, 9090,
    3128, 1080, 6667, 7001, 7002, 8181, 8888, 8883, 2181, 2049,
    4190, 10000, 25565, 25575, 5901, 5902, 5903, 465, 9200, 25>>

Top(n) ==
    LET m == IF n <= 0 THEN 1 ELSE n
    IN IF m >= Len(TopList) THEN TopList ELSE SubSeq(TopList, 1, m)

\* sort.Ints of the keys of the set
RECURSIVE sortInts(_)
sortInts(S) ==
    IF S = {} THEN <<>>
    ELSE LET m == CHOOSE x \in S : \A y \in S : x <= y
         IN <<m>> \o sortInts(S \ {m})

PortsError == [err |-> TRUE, ports |-> <<>>]

\* lines 124-151: the loop over the comma-separated parts, filling the set
RECURSIVE portSet(_, _, _)
portSet(parts, i, set) ==
    IF i > Len(parts) THEN [err |-> FALSE, set |-> set]
    ELSE
    LET p == TrimSpace(parts[i])
    IN IF p = <<>> THEN portSet(parts, i + 1, set)
       ELSE IF Contains(p, <<45>>)
       THEN LET r == SplitN2(p, 45)
                a == Atoi(TrimSpace(r[1]))
                b == Atoi(TrimSpace(r[2]))
            IN IF ~a.ok \/ ~b.ok \/ a.val <= 0 \/ b.val <= 0 \/ b.val < a.val
               THEN [err |-> TRUE, set |-> {}]
               ELSE portSet(parts, i + 1,
                            set \cup {k \in a.val..b.val : k <= MaxPort})
       ELSE LET v == Atoi(p)
            IN IF ~v.ok \/ v.val <= 0 \/ v.val > MaxPort
               THEN [err |-> TRUE, set |-> {}]
               ELSE portSet(parts, i + 1, set \cup {v.val})

parsePorts(spec) ==
    IF spec = <<>> \/ HasPrefix(spec, S_top)
    THEN LET val == IF HasPrefix(spec, S_top) THEN SubSeq(spec, 5, Len(spec))
                    ELSE <<>>
             parsed == Atoi(val)
         IN IF val # <<>> /\ (~parsed.ok \/ parsed.val <= 0)
            THEN PortsError
            ELSE [err |-> FALSE,
                  ports |-> Top(IF val # <<>> THEN parsed.val ELSE DefaultTop)]
    ELSE LET filled == portSet(Split(spec, 44), 1, {})
         IN IF filled.err THEN PortsError
            ELSE [err |-> FALSE, ports |-> sortInts(filled.set)]

-----------------------------------------------------------------------------
(* parsePorts on drawn port specifications *)

\* most items of a comma-separated specification
MaxItems == 2
\* largest N of a drawn top:N
MaxTop == 100

PortItems ==
    {<<56, 48>>,  \* "80"
     <<32, 50, 50, 32>>,  \* " 22 "
     <<49, 45, 51>>,  \* "1-3"
     <<51, 45, 51>>,  \* "3-3"
     <<>>,  \* ""
     <<54, 53, 53, 51, 53>>,  \* "65535"
     <<54, 53, 53, 51, 52, 45, 54, 53, 53, 51, 55>>,  \* "65534-65537"
     <<48>>,  \* "0"
     <<54, 53, 53, 51, 54>>,  \* "65536"
     <<51, 45, 49>>,  \* "3-1"
     <<120>>,  \* "x"
     <<45, 53>>,  \* "-5"
     <<43, 55>>,  \* "+7"
     <<50, 32, 45, 32, 52>>,  \* "2 - 4"
     <<49, 45, 50, 45, 51>>}  \* "1-2-3"
BadTopSpecs ==
    {<<116, 111, 112, 58, 48>>,  \* "top:0"
     <<116, 111, 112, 58, 45, 49>>,  \* "top:-1"
     <<116, 111, 112, 58, 120>>}  \* "top:x"
TopSpecs ==
    {<<>>, S_top} \cup BadTopSpecs \cup {S_top \o Itoa(n) : n \in 1..MaxTop}
ListSpecs == {Join(l, <<44>>) : l \in SeqsUpTo(PortItems, MaxItems) \ {<<>>}}
PortSpecs == TopSpecs \cup ListSpecs

PpInit ==
    /\ ppSpec \in PortSpecs
    /\ ppRes = <<>>
    /\ ppPc = "parse"
    /\ host = HostA /\ probe = FALSE
    /\ ScanOff
    /\ SanOff
    /\ FpOff
    /\ MainOff

\* portsList, err := parsePorts(portsSpec)
ParsePorts ==
    /\ ppPc = "parse"
    /\ ppRes' = parsePorts(ppSpec)
    /\ ppPc' = "done"
    /\ UNCHANGED <<ppSpec, scanVars, sanVars, fpVars, mainVars>>

PpNext == ParsePorts

SpecPorts == PpInit /\ [][PpNext]_vars

-----------------------------------------------------------------------------
(* main.go: expandHosts *)

\* most hosts an expansion is followed for
MaxHosts == 6

\* a & b and a | b on naturals, bit by bit
RECURSIVE BitAnd(_, _)
BitAnd(a, b) ==
    IF a = 0 \/ b = 0 THEN 0
    ELSE (a % 2) * (b % 2) + 2 * BitAnd(a \div 2, b \div 2)

RECURSIVE BitOr(_, _)
BitOr(a, b) ==
    IF a = 0 THEN b
    ELSE IF b = 0 THEN a
    ELSE (IF a % 2 = 1 \/ b % 2 = 1 THEN 1 ELSE 0) + 2 * BitOr(a \div 2, b \div 2)

\* ^m on a byte
BitNot8(m) == 255 - m

\* one field of a dotted IPv4 address: 1 to 3 digits, no leading zero, at
\* most 255
Octet(s) ==
    LET digits == s # <<>> /\ \A i \in 1..Len(s) : s[i] \in 48..57
    IN IF digits /\ Len(s) <= 3 /\ (Len(s) = 1 \/ s[1] # 48)
          /\ digitsVal(s, 0) <= 255
       THEN [ok |-> TRUE, val |-> digitsVal(s, 0)]
       ELSE [ok |-> FALSE, val |-> 0]

\* net.CIDRMask(n, 32), byte k of 1..4
MaskByte(n, k) ==
    LET bits == IF n - 8 * (k - 1) < 0 THEN 0
                ELSE IF n - 8 * (k - 1) > 8 THEN 8 ELSE n - 8 * (k - 1)
    IN 256 - 2 ^ (8 - bits)

\* net.ParseCIDR on an IPv4 block "a.b.c.d/n": the network address (the
\* address masked) and the mask; every other string is an error here, as it
\* is in expandHosts, which rejects IPv6 blocks too
ParseCIDR(s) ==
    LET r == SplitN2(s, 47)
        parts == Split(r[1], 46)
        bitsOk == r[2] # <<>> /\ Len(r[2]) <= 3
                  /\ \A i \in 1..Len(r[2]) : r[2][i] \in 48..57
        n == digitsVal(r[2], 0)
    IN IF Len(parts) = 4 /\ (\A k \in 1..4 : Octet(parts[k]).ok)
          /\ bitsOk /\ n <= 32
       THEN [ok |-> TRUE,
             ip |-> [k \in 1..4 |-> BitAnd(Octet(parts[k]).val, MaskByte(n, k))],
             mask |-> [k \in 1..4 |-> MaskByte(n, k)]]
       ELSE [ok |-> FALSE, ip |-> <<>>, mask |-> <<>>]

\* A uint32 is kept as its two 16-bit halves <<high, low>>: the model
\* checker's own integers are signed 32-bit and cannot hold 2^32 - 1.
ipToUint32(ip) ==
    <<BitOr(ip[1] * 2 ^ 8, ip[2]), BitOr(ip[3] * 2 ^ 8, ip[4])>>

\* a <= b on uint32
LeqUint32(a, b) == a[1] < b[1] \/ (a[1] = b[1] /\ a[2] <= b[2])

\* n++ on uint32: the carry out of the high half is lost
IncUint32(n) ==
    IF n[2] = 65535 THEN <<(n[1] + 1) % 65536, 0>> ELSE <<n[1], n[2] + 1>>

\* uint32ToIP(n).String()
uint32ToIP(n) ==
    Itoa(n[1] \div 256) \o <<46>> \o Itoa(n[1] % 256)
    \o <<46>> \o Itoa(n[2] \div 256) \o <<46>> \o Itoa(n[2] % 256)

-----------------------------------------------------------------------------
(* main.go: main, with its own ScanHostPorts and PrintTable *)

\* line 40: whether the connect to h:p succeeds
isOpen(h, p) == h \in hostsUp /\ p \in listening

\* lines 44 and 46: the Result of one dial
dialResult(h, p, lat, open) ==
    [Host |-> h, Port |-> p, Open |-> open, Latency |-> lat,
     Err |-> IF open THEN "" ELSE "dial tcp: connect: connection refused"]

\* lines 25-73: the slices a call may return.  The pool is that of the
\* scanner package without the probe: every port is dialled once by some
\* worker, the Results are collected in any order and sorted by less.
ScanHostPorts(h, ps) ==
    UNION {sortSlice([i \in 1..Len(ps) |->
                         dialResult(h, ps[i], lats[i], isOpen(h, ps[i]))]) :
              lats \in [1..Len(ps) -> Latencies]}

\* the append of every Result, open or not
keep_everything(results, all) == results

\* lines 248-256
keep(results, all) ==
    IF ~all THEN SelectSeq(results, LAMBDA r : r.Open) ELSE results

\* lines 75-104: the rows in the order PrintTable writes them: hosts by
\* sort.Strings, the rows of a host by port
RECURSIVE sortStrings(_)
sortStrings(S) ==
    IF S = {} THEN <<>>
    ELSE LET m == CHOOSE x \in S : \A y \in S : x = y \/ StrLess(x, y)
         IN <<m>> \o sortStrings(S \ {m})

RECURSIVE tableRows(_, _)
tableRows(hs, results) ==
    IF hs = <<>> THEN {<<>>}
    ELSE LET byHost == SelectSeq(results, LAMBDA r : r.Host = hs[1])
         IN {a \o b : a \in sortSlice(byHost), b \in tableRows(Tail(hs), results)}

PrintTable(results) ==
    tableRows(sortStrings({results[i].Host : i \in 1..Len(results)}), results)

A_9 == <<49, 48, 46, 48, 46, 48, 46, 57>>  \* "10.0.0.9"
A_10 == <<49, 48, 46, 48, 46, 48, 46, 49, 48>>  \* "10.0.0.10"
HostSpecs ==
    {<<97>>,  \* "a"
     <<98, 44, 97>>,  \* "b,a"
     <<97, 44, 98>>,  \* "a,b"
     <<32, 97, 32, 44, 32, 44, 98>>,  \* " a , ,b"
     <<49, 48, 46, 48, 46, 48, 46, 56, 47, 51, 48>>,  \* "10.0.0.8/30"
     <<98, 44, 49, 48, 46, 48, 46, 48, 46, 57, 47, 51, 50>>,  \* "b,10.0.0.9/32"
     <<49, 48, 46, 48, 46, 48, 46, 57, 47, 51, 49>>,  \* "10.0.0.9/31"
     <<50, 53, 53, 46, 50, 53, 53, 46, 50, 53, 53, 46, 50, 53, 52, 47, 51, 49>>,  \* "255.255.255.254/31"
     <<50, 53, 53, 46, 50, 53, 53, 46, 50, 53, 53, 46, 50, 53, 53, 47, 51, 50>>,  \* "255.255.255.255/32"
     <<49, 48, 46, 48, 46, 48, 46, 51, 48, 48, 47, 50, 52>>,  \* "10.0.0.300/24"
     <<49, 48, 46, 48, 46, 48, 46, 48, 47, 51, 51>>,  \* "10.0.0.0/33"
     <<120, 47, 121>>,  \* "x/y"
     <<44>>,  \* ","
     <<>>}  \* ""
MainPortSpecs ==
    {<<56, 48>>,  \* "80"
     <<56, 48, 44, 50, 50>>,  \* "80,22"
     <<116, 111, 112, 58, 50>>,  \* "top:2"
     <<120>>}  \* "x"
\* the network: which hosts answer, and the ports that are open on them
Networks == {<<{}, {}>>, <<{HostA}, {80}>>, <<{HostA, HostB, A_9}, {22, 80}>>,
             <<{HostB, A_10}, {22, 443}>>}

MainInit ==
    /\ hostsSpec \in HostSpecs
    /\ portsSpec \in MainPortSpecs
    /\ workersFlag \in {0, 500}
    /\ jsonOut \in BOOLEAN
    /\ includeClosed \in BOOLEAN
    /\ \E n \in Networks : hostsUp = n[1] /\ listening = n[2]
    /\ items = <<>> /\ itemIdx = 1 /\ inLoop = FALSE /\ cur = <<0, 0>> /\ end = <<0, 0>>
    /\ hosts = <<>> /\ portsList = <<>> /\ hostIdx = 1 /\ allResults = <<>>
    /\ emitted = <<>>
    /\ mPc = "start"
    /\ host = HostA /\ probe = FALSE
    /\ ScanOff
    /\ SanOff
    /\ FpOff
    /\ PpOff

\* lines 161-165
ExpandBegin ==
    /\ mPc = "start"
    /\ IF hostsSpec = <<>>
       THEN mPc' = "exit1" /\ items' = items
       ELSE mPc' = "expand" /\ items' = Split(hostsSpec, 44)
    /\ UNCHANGED <<hostsSpec, portsSpec, workersFlag, jsonOut, includeClosed,
                   hostsUp, listening, itemIdx, inLoop, cur, end, hosts,
                   portsList, hostIdx, allResults, emitted,
                   scanVars, sanVars, fpVars, ppVars>>

\* lines 166-187 and 193: one item, up to the CIDR loop
ExpandItem ==
    /\ mPc = "expand"
    /\ ~inLoop
    /\ itemIdx <= Len(items)
    /\ LET item == TrimSpace(items[itemIdx])
           net == ParseCIDR(item)
       IN IF item = <<>>
          THEN /\ itemIdx' = itemIdx + 1
               /\ UNCHANGED <<mPc, inLoop, cur, end, hosts>>
          ELSE IF ~Contains(item, <<47>>)
          THEN /\ hosts' = Append(hosts, item)
               /\ itemIdx' = itemIdx + 1
               /\ UNCHANGED <<mPc, inLoop, cur, end>>
          ELSE IF ~net.ok
          THEN /\ mPc' = "exit1"
               /\ UNCHANGED <<itemIdx, inLoop, cur, end, hosts>>
          ELSE /\ inLoop' = TRUE
               /\ cur' = ipToUint32(net.ip)
               /\ end' = ipToUint32([k \in 1..4 |->
                                        BitOr(net.ip[k], BitNot8(net.mask[k]))])
               /\ UNCHANGED <<mPc, itemIdx, hosts>>
    /\ UNCHANGED <<hostsSpec, portsSpec, workersFlag, jsonOut, includeClosed,
                   hostsUp, listening, items, portsList, hostIdx, allResults,
                   emitted, scanVars, sanVars, fpVars, ppVars>>

\* lines 188-191: one test of cur <= ipToUint32(end), and the body and
\* cur++ on a uint32 when it holds
ExpandAddr ==
    /\ mPc = "expand"
    /\ inLoop
    /\ Len(hosts) < MaxHosts
    /\ IF LeqUint32(cur, end)
       THEN /\ hosts' = Append(hosts, uint32ToIP(cur))
            /\ cur' = IncUint32(cur)
            /\ UNCHANGED <<inLoop, itemIdx>>
       ELSE /\ inLoop' = FALSE
            /\ itemIdx' = itemIdx + 1
            /\ UNCHANGED <<hosts, cur>>
    /\ UNCHANGED <<hostsSpec, portsSpec, workersFlag, jsonOut, includeClosed,
                   hostsUp, listening, items, end, portsList, hostIdx,
                   allResults, emitted, mPc, scanVars, sanVars, fpVars, ppVars>>

\* lines 195-198 and 226-243: expandHosts returns; the ports are parsed and
\* the worker count coerced (the drawn timeout is valid)
ParseFlags ==
    /\ mPc = "expand"
    /\ ~inLoop
    /\ itemIdx > Len(items)
    /\ LET parsed == parsePorts(portsSpec)
       IN IF hosts = <<>> \/ parsed.err
          THEN mPc' = "exit1" /\ UNCHANGED <<portsList, workersFlag>>
          ELSE /\ mPc' = "scan"
               /\ portsList' = parsed.ports
               /\ workersFlag' = IF workersFlag <= 0 THEN DefaultWorkers
                                 ELSE workersFlag
    /\ UNCHANGED <<hostsSpec, portsSpec, jsonOut, includeClosed, hostsUp,
                   listening, items, itemIdx, inLoop, cur, end, hosts, hostIdx,
                   allResults, emitted, scanVars, sanVars, fpVars, ppVars>>

\* lines 246-258: one host
ScanHost ==
    /\ mPc = "scan"
    /\ hostIdx <= Len(hosts)
    /\ \E results \in ScanHostPorts(hosts[hostIdx], portsList) :
          allResults' = allResults \o keep(results, includeClosed)
    /\ hostIdx' = hostIdx + 1
    /\ UNCHANGED <<hostsSpec, portsSpec, workersFlag, jsonOut, includeClosed,
                   hostsUp, listening, items, itemIdx, inLoop, cur, end, hosts,
                   portsList, emitted, mPc, scanVars, sanVars, fpVars, ppVars>>

\* lines 260-267: allResults goes to the JSON encoder as it is, or to
\* PrintTable
Output ==
    /\ mPc = "scan"
    /\ hostIdx > Len(hosts)
    /\ IF jsonOut THEN emitted' = allResults
       ELSE emitted' \in PrintTable(allResults)
    /\ mPc' = "done"
    /\ UNCHANGED <<hostsSpec, portsSpec, workersFlag, jsonOut, includeClosed,
                   hostsUp, listening, items, itemIdx, inLoop, cur, end, hosts,
                   portsList, hostIdx, allResults, scanVars, sanVars, fpVars,
                   ppVars>>

MainNext ==
    \/ ExpandBegin \/ ExpandItem \/ ExpandAddr \/ ParseFlags
    \/ ScanHost \/ Output

SpecMain == MainInit /\ [][MainNext]_vars

-----------------------------------------------------------------------------
(* Properties *)

\* how often port p occurs in a port list, and in the Results of a slice
Occurs(ps, p) == Cardinality({i \in 1..Len(ps) : ps[i] = p})
ResultsFor(rs, p) == Cardinality({i \in 1..Len(rs) : rs[i].Port = p})
\* the Results held by workers blocked on the send of line 53 or 55
Sending == {w \in BagToSet(pool) : w.pc = "send"}
NoDuplicates(ps) == \A i, j \in 1..Len(ps) : i # j => ps[i] # ps[j]

\* C1: ScanHostPorts returns exactly one Result per input port: the returned
\* slice has as many Results for each port as the port list has occurrences
\* of it, and every Result carries the host that was given.
C1_OneResultPerPort ==
    mainPc = "returned" =>
        /\ Len(ret) = Len(ports)
        /\ \A p \in ScanPorts : ResultsFor(ret, p) = Occurs(ports, p)
        /\ \A i \in 1..Len(ret) : ret[i].Host = host

\* a scan of the same port twice by two workers has returned
C1_Witness ==
    /\ mainPc = "returned"
    /\ Len(ports) = 2 /\ ports[1] = ports[2]
    /\ workers = 2
    /\ Len(ret) = 2

\* C2: under fair scheduling ScanHostPorts returns, whatever the port list
\* and the worker count, with both channels closed, the dispatcher and every
\* worker finished; a state in which no goroutine can move and the call has
\* not returned would stay for ever and falsify this.
C2_Returns ==
    <>(/\ mainPc = "returned"
       /\ jobsClosed /\ resultsClosed
       /\ dispPc = "done"
       /\ \A w \in BagToSet(pool) : w.pc = "done")

\* a scan with workers <= 0 ran with the default pool and has returned
C2_Witness ==
    /\ mainPc = "returned"
    /\ workersArg <= 0 /\ workers = DefaultWorkers
    /\ Len(ports) = MaxPorts
    /\ dispPc = "done"
    /\ \A w \in BagToSet(pool) : w.pc = "done"

\* C3: the returned slice is sorted by (host, port).
C3_Sorted ==
    mainPc = "returned" =>
        \A i \in 1..(Len(ret) - 1) :
            \/ StrLess(ret[i].Host, ret[i + 1].Host)
            \/ ret[i].Host = ret[i + 1].Host /\ ret[i].Port <= ret[i + 1].Port

\* the workers emitted a larger port before a smaller one
C3_Witness ==
    /\ mainPc = "returned"
    /\ \E i \in 1..(Len(out) - 1) : out[i].Port > out[i + 1].Port
    /\ ret # out

\* C4: every Result a worker produces, wherever it is (held by the worker,
\* collected, returned), is open exactly when its error is empty, and a
\* closed one has no service, banner or fingerprint.
WellFormed(r) ==
    /\ r.Open = FALSE <=> r.Err # ""
    /\ r.Open = TRUE <=> r.Err = ""
    /\ r.Open = FALSE => r.Service = "" /\ r.Banner = <<>> /\ r.Fingerprint = <<>>
C4_OpenIffNoError ==
    /\ \A w \in Sending : WellFormed(w.r)
    /\ \A i \in 1..Len(out) : WellFormed(out[i])
    /\ \A i \in 1..Len(ret) : WellFormed(ret[i])

\* a closed and an open Result have been returned together
C4_Witness ==
    /\ mainPc = "returned"
    /\ \E i, j \in 1..Len(ret) : ret[i].Open /\ ~ret[j].Open

\* C5: once the connect has succeeded, whatever the probing meets, the one
\* Result of the port is open with an empty error.
C5_ProbeNeverFails ==
    fpPc = "done" /\ fpConn.open =>
        /\ fpRes.r.Port = fpPort
        /\ fpRes.r.Open = TRUE
        /\ fpRes.r.Err = ""

\* a probe on a TLS port met silence and a failed handshake
C5_Witness ==
    /\ fpPc = "done" /\ fpConn.open /\ probe
    /\ isTLSPort(fpPort) /\ ~fpConn.tls.ok
    /\ fpConn.read1 = <<>>
    /\ "handshake" \in Range(fpRes.io)
    /\ fpRes.r.Banner = <<>> /\ fpRes.r.Fingerprint = <<>>

\* C6: with probe off, an open Result has empty banner and fingerprint and
\* the table's service for its port (443 is https, 9999 is not in the
\* table), and nothing was read from or written to the connection.
C6_NoProbe ==
    fpPc = "done" /\ ~probe /\ fpRes.r.Open =>
        /\ fpRes.r.Banner = <<>>
        /\ fpRes.r.Fingerprint = <<>>
        /\ fpRes.r.Service = knownServiceForPort(fpPort)
        /\ fpPort = 443 => fpRes.r.Service = "https"
        /\ fpPort = 9999 => fpRes.r.Service = ""
        /\ fpRes.io = <<>>

\* with probe off, a port whose server greets and answers was left unprobed
C6_Witness ==
    /\ fpPc = "done" /\ ~probe /\ fpRes.r.Open
    /\ fpPort = 443
    /\ fpConn.read1 # <<>> /\ fpConn.tls.ok
    /\ fpRes.r.Service = "https"

\* C7: sanitizeBanner is idempotent: the second call returns what the first
\* returned.
C7_Idempotent == Len(sanOut) = 2 => sanOut[2] = sanOut[1]

\* both calls were made on a string the first one changed
C7_Witness ==
    /\ Len(sanOut) = 2
    /\ sanOut[1] # sanIn
    /\ sanOut[1] # <<>>

\* C8: the output of sanitizeBanner holds only characters of [32,126] and
\* never two spaces in a row.
Clean(o) ==
    /\ \A i \in 1..Len(o) : o[i] >= 32 /\ o[i] <= 126
    /\ \A i \in 1..(Len(o) - 1) : ~(o[i] = 32 /\ o[i + 1] = 32)
C8_PrintableNoDoubleSpace == \A k \in 1..Len(sanOut) : Clean(sanOut[k])

\* the input held two spaces with only dropped characters between them
C8_Witness ==
    /\ Len(sanOut) >= 1
    /\ \E i, j \in 1..Len(sanIn) :
          /\ i + 1 < j
          /\ sanIn[i] = 32 /\ sanIn[j] = 32
          /\ \A k \in (i + 1)..(j - 1) : sanIn[k] < 32 \/ sanIn[k] > 126

\* the HTTP scenario: probing an HTTP port whose server sends nothing
\* unprompted and answers the GET with status line st and Server value v
HttpCase(st, v) ==
    /\ fpPc = "done" /\ probe /\ fpConn.open
    /\ isHTTPPort(fpPort)
    /\ fpConn.read1 = <<>>
    /\ fpConn.http = HttpResponse(st, v)
NoTrailingSpace(b) == b = <<>> \/ ~IsSpace(b[Len(b)])
\* the last character of a raw line that sanitizeBanner keeps
EndsInSpace(raw) ==
    LET kept == {i \in 1..Len(raw) : raw[i] >= 32 /\ raw[i] <= 126}
    IN kept # {} /\ raw[CHOOSE i \in kept : \A j \in kept : j <= i] = 32

\* C9 as stated: service http, the banner is the sanitized status line and
\* has no trailing whitespace, the fingerprint contains the status line and
\* the Server value.
C9_Original ==
    \A st \in StatusLines, v \in ServerValues :
        HttpCase(st, v) =>
            /\ fpRes.r.Service = "http"
            /\ fpRes.r.Banner = sanitizeBanner(st)
            /\ NoTrailingSpace(fpRes.r.Banner)
            /\ Contains(fpRes.r.Fingerprint, TrimSpace(sanitizeBanner(st)))
            /\ Contains(fpRes.r.Fingerprint, TrimSpace(sanitizeBanner(v)))

\* C9, amended: service http, the banner is the sanitized status line, which
\* has no trailing whitespace unless the status line ends in a space (an
\* empty reason phrase); the fingerprint contains the status line and the
\* Server value, both sanitized and trimmed.
C9_HttpProbe ==
    \A st \in StatusLines, v \in ServerValues :
        HttpCase(st, v) =>
            /\ fpRes.r.Service = "http"
            /\ fpRes.r.Banner = sanitizeBanner(st)
            /\ NoTrailingSpace(fpRes.r.Banner) <=> ~EndsInSpace(st)
            /\ Contains(fpRes.r.Fingerprint, TrimSpace(sanitizeBanner(st)))
            /\ Contains(fpRes.r.Fingerprint, TrimSpace(sanitizeBanner(v)))

\* the scenario of the specification: "HTTP/1.1 200 OK" and "nginx"
C9_Witness ==
    /\ HttpCase(StatusOK, Nginx)
    /\ fpRes.r.Banner = StatusOK
    /\ fpRes.r.Fingerprint = StatusOK \o <<32>> \o Nginx

\* the ports of a list without duplicates, ascending
RECURSIVE Ascending(_)
Ascending(S) ==
    IF S = {} THEN <<>>
    ELSE LET m == CHOOSE x \in S : \A y \in S : x <= y
         IN <<m>> \o Ascending(S \ {m})
Tuple(r) == <<r.Host, r.Port, r.Open, r.Service>>
\* what the target answers on port p, as the code reads it
Answer(p) ==
    IF target[p].open
    THEN Tuple(openResult(host, p, 1, probe, target[p]).r)
    ELSE Tuple(closedResult(host, p, 1, target[p]).r)

\* C10: for a port list without duplicates the returned (host, port, open,
\* service) tuples are a function of the host, the ports, the probe flag and
\* the target alone: the ports ascending, each with the target's answer.
\* Neither the worker count nor the interleaving nor the latencies show.
C10_SchedulingIndependent ==
    mainPc = "returned" /\ NoDuplicates(ports) =>
        LET asc == Ascending(Range(ports))
        IN /\ Len(ret) = Len(asc)
           /\ \A i \in 1..Len(ret) : Tuple(ret[i]) = Answer(asc[i])

\* two ports submitted in ascending order were emitted in descending order,
\* with different latencies
C10_Witness ==
    /\ mainPc = "returned"
    /\ Len(ports) = 2 /\ ports[1] < ports[2]
    /\ Len(out) = 2 /\ out[1].Port = ports[2]
    /\ out[1].Latency # out[2].Latency

\* adjacent Results in (host, port) order, hosts compared as strings
SortedByHostPort(rs) ==
    \A i \in 1..(Len(rs) - 1) :
        \/ StrLess(rs[i].Host, rs[i + 1].Host)
        \/ rs[i].Host = rs[i + 1].Host /\ rs[i].Port <= rs[i + 1].Port

\* C11: the merged results of a scan of several hosts, the slice main hands
\* to the JSON encoder and the rows the encoder writes, are sorted by
\* (host, port) ascending, whatever the order of the host list.
C11_MergedSorted ==
    mPc = "done" /\ jsonOut =>
        /\ SortedByHostPort(allResults)
        /\ SortedByHostPort(emitted)

\* C12: the port list parsePorts hands on is ascending without a duplicate
\* and holds only ports of 1..65535, for every accepted specification:
\* lists, ranges, top:N, and the default.
C12_PortListOrderedDeduped ==
    ppPc = "done" /\ ~ppRes.err =>
        /\ \A i \in 1..(Len(ppRes.ports) - 1) : ppRes.ports[i] < ppRes.ports[i + 1]
        /\ \A i, j \in 1..Len(ppRes.ports) :
              i # j => ppRes.ports[i] # ppRes.ports[j]
        /\ \A i \in 1..Len(ppRes.ports) : ppRes.ports[i] \in 1..65535

\* what main.go's Result says of a dial, without the latency
Tuple3(r) == <<r.Host, r.Port, r.Open>>
\* the rows expected of the hosts hs in turn: for each host the ports
\* ascending, each with what the network answers, the closed ones left out
\* unless all is set
RECURSIVE ExpectedRows(_, _, _)
ExpectedRows(hs, ps, all) ==
    IF hs = <<>> THEN <<>>
    ELSE LET asc == Ascending(Range(ps))
             rows == [i \in 1..Len(asc) |-> <<hs[1], asc[i], isOpen(hs[1], asc[i])>>]
         IN (IF all THEN rows ELSE SelectSeq(rows, LAMBDA t : t[3]))
            \o ExpectedRows(Tail(hs), ps, all)

\* C20: without -all the merged results are exactly the open Results, each
\* once and in the order the scans produced them (the hosts in the order of
\* the host list, the ports of a host ascending); with -all there are
\* len(hosts) x len(ports) of them and none is left out.
C20_FilterKeepsOpen ==
    mPc = "done" /\ NoDuplicates(portsList) =>
        /\ [i \in 1..Len(allResults) |-> Tuple3(allResults[i])]
               = ExpectedRows(hosts, portsList, includeClosed)
        /\ ~includeClosed => \A i \in 1..Len(allResults) : allResults[i].Open
        /\ includeClosed => Len(allResults) = Len(hosts) * Len(portsList)

\* a scan of two hosts without -all kept an open Result and dropped a closed
\* one
C20_Witness ==
    /\ mPc = "done" /\ ~includeClosed
    /\ Len(hosts) >= 2 /\ Len(portsList) = 2
    /\ allResults # <<>>
    /\ Len(allResults) < Len(hosts) * Len(portsList)

\* a scan of two hosts with -all returned open and closed Results
C20_WitnessAll ==
    /\ mPc = "done" /\ includeClosed
    /\ Len(allResults) = 4
    /\ \E i, j \in 1..4 : allResults[i].Open /\ ~allResults[j].Open

\* the number of workers in a set of local states
RECURSIVE CountIn(_)
CountIn(W) ==
    IF W = {} THEN 0
    ELSE LET w == CHOOSE x \in W : TRUE
         IN CopiesIn(w, pool) + CountIn(W \ {w})
Dialing == {w \in BagToSet(pool) : w.pc = "dial"}
AllExited == \A w \in BagToSet(pool) : w.pc = "done"

\* C13: results is closed only after jobs is closed and every worker has
\* finished; once it is closed no worker is dialing, probing or sending, and
\* nothing more is collected; ScanHostPorts has not returned while a worker
\* is still at work.
C13_CloseAfterWorkers ==
    /\ [](resultsClosed => jobsClosed /\ wg = 0 /\ AllExited)
    /\ [](mainPc = "returned" => resultsClosed /\ AllExited)
    /\ [][resultsClosed => out' = out /\ pool' = pool]_vars

\* results was closed after two workers had each delivered a Result
C13_Witness ==
    /\ resultsClosed /\ mainPc = "collect"
    /\ workers = 2 /\ Len(out) = 2
    /\ CopiesIn(Exited, pool) = 2

\* the ports submitted so far
Submitted == SubSeq(ports, 1, jobsNext - 1)
\* the jobs for port p held by workers that are dialing or probing, and by
\* workers blocked on their send
DialingFor(p) == CopiesIn([pc |-> "dial", p |-> p], pool)
SendingFor(p) == CountIn({w \in Sending : w.r.Port = p})

\* C14: every submitted port is with exactly one worker, or its one Result
\* has been collected: no job is taken twice, none is dropped.  A worker
\* starts a dial only by receiving a job, and a dial ends in the send of its
\* Result, open or not: there is no second dial of a port.
C14_EachJobOnce ==
    /\ [](\A p \in ScanPorts :
             Occurs(Submitted, p)
                 = DialingFor(p) + SendingFor(p) + ResultsFor(out, p))
    /\ [][\A p \in ScanPorts :
             /\ DialingFor(p)' > DialingFor(p) =>
                   /\ jobsNext' = jobsNext + 1 /\ ports[jobsNext] = p
                   /\ DialingFor(p)' = DialingFor(p) + 1
             /\ DialingFor(p)' < DialingFor(p) =>
                   /\ DialingFor(p)' = DialingFor(p) - 1
                   /\ SendingFor(p)' = SendingFor(p) + 1]_vars

\* two workers each took one of two jobs for the same port, and a connect
\* failed
C14_Witness ==
    /\ Len(ports) = 2 /\ ports[1] = ports[2]
    /\ workers = 2
    /\ mainPc = "returned"
    /\ \E i \in 1..Len(ret) : ~ret[i].Open

\* the ports taken from jobs whose Result the collector has not received
InFlight == (jobsNext - 1) - Len(out)

\* C15: the ports taken from the job channel whose Result has not been
\* received are never more than the workers, and they are the workers that
\* are dialing or sending; the dispatcher submits a port only while a worker
\* is idle, and a worker takes a job only when it holds no Result.
C15_Backpressure ==
    /\ [](mainPc # "start" =>
             /\ InFlight <= workers
             /\ InFlight = CountIn(Dialing) + CountIn(Sending))
    /\ [][jobsNext' # jobsNext =>
             /\ InFlight < workers
             /\ CountIn(Sending)' = CountIn(Sending)
             /\ CopiesIn(Recv, pool)' = CopiesIn(Recv, pool) - 1]_vars

\* the one worker of a pool holds a Result while the dispatcher has another
\* port to submit
C15_Witness ==
    /\ workers = 1 /\ Len(ports) = 2
    /\ jobsNext = 2 /\ dispPc = "send"
    /\ CountIn(Sending) = 1

\* the run collapsing C16 describes: \n, \r, \t and space are whitespace, a
\* run of them gives one space; a character outside [32,126] that is not
\* whitespace is dropped; every other character is kept
RECURSIVE CollapseFrom(_, _, _, _)
CollapseFrom(s, i, res, lastSpace) ==
    IF i > Len(s) THEN res
    ELSE IF s[i] \in {10, 13, 9, 32}
    THEN CollapseFrom(s, i + 1, IF lastSpace THEN res ELSE Append(res, 32), TRUE)
    ELSE IF s[i] < 32 \/ s[i] > 126
    THEN CollapseFrom(s, i + 1, res, lastSpace)
    ELSE CollapseFrom(s, i + 1, Append(res, s[i]), FALSE)

\* C16: sanitizeBanner turns every run of \n, \r, \t and space into one
\* space, drops every other character outside [32,126] and keeps the rest in
\* order.
C16_CollapsesWhitespace ==
    Len(sanOut) >= 1 => sanOut[1] = CollapseFrom(sanIn, 1, <<>>, FALSE)

\* the banner of the immediate read and of the second read of the SSH branch
Banner1 == sanitizeBanner(Read(fpConn.read1))
Banner2 == sanitizeBanner(Read(fpConn.read2))
Probed == fpPc = "done" /\ probe /\ fpConn.open
InSshBranch == Probed /\ (HasPrefix(Banner1, S_SSH) \/ fpPort = 22)
SshText == IF Banner1 # <<>> THEN Banner1 ELSE Banner2
Reads(io) == Cardinality({i \in 1..Len(io) : io[i] = "read"})

\* C17 as stated: in the SSH branch a second read is made exactly when the
\* first gave no banner; the service is ssh if either read gave banner text
\* and empty when both gave nothing.
C17_Original ==
    InSshBranch =>
        /\ Reads(fpRes.io) = (IF Banner1 = <<>> THEN 2 ELSE 1)
        /\ fpRet.service = (IF SshText # <<>> THEN "ssh" ELSE "")

\* C17, amended: in the SSH branch a second read is made exactly when the
\* first gave no banner; the service is ssh in every case, and banner and
\* fingerprint are the text of the first read that gave any, or empty when
\* both gave nothing.
C17_SshBranch ==
    InSshBranch =>
        /\ Reads(fpRes.io) = (IF Banner1 = <<>> THEN 2 ELSE 1)
        /\ fpRet.service = "ssh"
        /\ fpRet.banner = SshText
        /\ fpRet.fp = SshText

\* a daemon on port 22 that greets only on the second read
C17_Witness ==
    /\ InSshBranch /\ fpPort = 22
    /\ fpConn.read1 = <<>> /\ fpConn.read2 = GreetSSH
    /\ fpRet.banner = Banner2 /\ HasPrefix(fpRet.banner, S_SSH)
    /\ fpRes.io = <<"read", "read">>

BannerServices == {"ssh", "smtp", "ftp", "pop3", "imap"}

\* C18: the first satisfied branch ends the cascade.  A banner beginning
\* with SSH- gives ssh with that banner on every port, with nothing done to
\* the connection but the one read; a request is written only on an HTTP
\* port, or on a TLS port after the handshake, when no banner branch
\* classified; a handshake is started only on a TLS port when no earlier
\* branch classified.
C18_FirstBranchWins ==
    Probed =>
        /\ HasPrefix(Banner1, S_SSH) =>
              /\ fpRet.service = "ssh"
              /\ fpRet.banner = Banner1
              /\ fpRes.io = <<"read">>
        /\ fpRet.service \in BannerServices =>
              \A i \in 1..Len(fpRes.io) : fpRes.io[i] = "read"
        /\ (\E i \in 1..Len(fpRes.io) : fpRes.io[i] = "write") =>
              /\ isHTTPPort(fpPort) \/ isTLSPort(fpPort)
              /\ isHTTPPort(fpPort) => "handshake" \notin Range(fpRes.io)
              /\ isTLSPort(fpPort) => fpRes.io[2] = "handshake"
              /\ fpRet.service \notin BannerServices
        /\ "handshake" \in Range(fpRes.io) =>
              /\ isTLSPort(fpPort)
              /\ fpRet.service \notin BannerServices \cup {"http"}

\* an SSH daemon on port 443, where a handshake would have succeeded
C18_Witness ==
    /\ Probed /\ fpPort = 443
    /\ fpConn.read1 = GreetSSH /\ fpConn.tls.ok
    /\ fpRet.service = "ssh"
    /\ fpRes.io = <<"read">>

\* no branch of the cascade can classify: not the SSH branch, no banner
\* that the port's banner branch accepts, no HTTP answer beginning with
\* HTTP/ on an HTTP port, no completed handshake on a TLS port
Unclassifiable ==
    /\ Probed /\ ~InSshBranch
    /\ fpPort \in {25, 587, 465} =>
          ~(Contains(ToUpper(Banner1), S_SMTP) \/ HasPrefix(Banner1, S_220))
    /\ fpPort = 21 =>
          ~(HasPrefix(Banner1, S_220) \/ Contains(ToUpper(Banner1), S_FTP))
    /\ fpPort = 110 =>
          ~(HasPrefix(Banner1, S_OK) \/ Contains(ToUpper(Banner1), S_POP3))
    /\ fpPort = 143 =>
          ~(HasPrefix(Banner1, S_STAROK) \/ Contains(ToUpper(Banner1), S_IMAP))
    /\ isHTTPPort(fpPort) =>
          ~HasPrefix(sanitizeBanner(ReadString(fpConn.http).line), S_HTTP)
    /\ isTLSPort(fpPort) => ~fpConn.tls.ok

\* C19: when no branch classifies, the prober returns the banner of the
\* immediate read with empty service and fingerprint (all three empty when
\* nothing was read), and the Result takes the table's service for the
\* port; a service the prober returns always goes before the table's (587
\* with an SMTP banner is smtp, not submission).
C19_Fallback ==
    /\ Unclassifiable =>
          /\ fpRet.service = "" /\ fpRet.fp = <<>>
          /\ fpRet.banner = Banner1
          /\ fpRes.r.Service = knownServiceForPort(fpPort)
          /\ fpRes.r.Banner = Banner1 /\ fpRes.r.Fingerprint = <<>>
    /\ Probed /\ fpRet.service # "" => fpRes.r.Service = fpRet.service
    /\ Probed /\ fpPort = 587 /\ fpConn.read1 = GreetSMTP =>
          fpRes.r.Service = "smtp"

\* port 8080 greets, answers the GET with something that is not HTTP, and
\* the Result gets the table's http-alt with the greeting as banner
C19_Witness ==
    /\ Unclassifiable /\ fpPort = 8080
    /\ fpConn.read1 = GreetMisc /\ fpConn.http = RespBad
    /\ fpRes.r.Service = "http-alt"
    /\ fpRes.r.Banner = Banner1 /\ Banner1 # <<>>

\* -hosts is one well-formed IPv4 block of at most 256 addresses
OneBlock ==
    /\ mPc # "off"
    /\ Contains(hostsSpec, <<47>>) /\ ~Contains(hostsSpec, <<44>>)
    /\ ParseCIDR(TrimSpace(hostsSpec)).ok
    /\ \A k \in 1..3 : ParseCIDR(TrimSpace(hostsSpec)).mask[k] = 255
BlockStart == ipToUint32(ParseCIDR(TrimSpace(hostsSpec)).ip)
BlockSize == 256 - ParseCIDR(TrimSpace(hostsSpec)).mask[4]
\* the addresses of the block, ascending, as dotted strings
BlockAddrs ==
    [k \in 1..BlockSize |-> uint32ToIP(<<BlockStart[1], BlockStart[2] + (k - 1)>>)]

\* C21: expandHosts yields exactly the addresses of a block, each once and
\* ascending, and then stops: the hosts appended so far are always the first
\* addresses of the block, the loop counter is the block's first address
\* plus the number appended (it has not wrapped), the loop test fails once
\* the whole block is appended, and the list returned is the block.
C21_ExpandsBlock ==
    OneBlock =>
        /\ Len(hosts) <= BlockSize
        /\ hosts = SubSeq(BlockAddrs, 1, Len(hosts))
        /\ inLoop => cur = <<BlockStart[1], BlockStart[2] + Len(hosts)>>
        /\ inLoop /\ Len(hosts) = BlockSize => ~LeqUint32(cur, end)
        /\ mPc \in {"scan", "done"} => hosts = BlockAddrs

====
